---- MODULE Spec2Model ----
(***************************************************************************)
(* Model of src/lib.rs: a no_std SHA-256 with a C calling convention.      *)
(*                                                                         *)
(* A u8 is an integer 0..255.  A u32 of the transform is a pair            *)
(* <<hi, lo>> of 16-bit halves (value hi * 65536 + lo), because the        *)
(* model checker's integers are narrower than 2^32; every operation on    *)
(* such a pair is reduced modulo 2^32; the u64 bit count is four 16-bit    *)
(* limbs, most significant first.  Arrays keep the source's 0-based        *)
(* indices (functions on 0..n-1); a byte span handed to update is a        *)
(* sequence, read through At.                                              *)
(***************************************************************************)
EXTENDS Integers, Sequences, FiniteSets, TLC

VARIABLES h, buffer, buflen, bitlen, out, hex, phase, hexed, msg, blocks, nupd, inits, last, build, upc, ulen, ui, udata, fed

vars == <<h, buffer, buflen, bitlen, out, hex, phase, hexed, msg, blocks, nupd, inits, last, build, upc, ulen, ui, udata, fed>>

(***************************************************************************)
(* Bit operations on u8 / u16 / u32                                        *)
(***************************************************************************)
RECURSIVE BitXor(_, _, _)
BitXor(a, b, n) ==
    IF n = 0 THEN 0
    ELSE ((a + b) % 2) + 2 * BitXor(a \div 2, b \div 2, n - 1)

RECURSIVE BitAnd(_, _, _)
BitAnd(a, b, n) ==
    IF n = 0 THEN 0
    ELSE ((a % 2) * (b % 2)) + 2 * BitAnd(a \div 2, b \div 2, n - 1)

XorTable == [a \in 0..255 |-> [b \in 0..255 |-> BitXor(a, b, 8)]]

AndTable == [a \in 0..255 |-> [b \in 0..255 |-> BitAnd(a, b, 8)]]

Xor16(a, b) == XorTable[a \div 256][b \div 256] * 256 + XorTable[a % 256][b % 256]

And16(a, b) == AndTable[a \div 256][b \div 256] * 256 + AndTable[a % 256][b % 256]

xor(a, b) == <<Xor16(a[1], b[1]), Xor16(a[2], b[2])>>

and(a, b) == <<And16(a[1], b[1]), And16(a[2], b[2])>>

or(a, b) == <<a[1] + b[1] - And16(a[1], b[1]), a[2] + b[2] - And16(a[2], b[2])>>

not(a) == <<65535 - a[1], 65535 - a[2]>>

shr(a, n) ==
    IF n >= 16 THEN <<0, a[1] \div (2 ^ (n - 16))>>
    ELSE <<a[1] \div (2 ^ n), (a[2] \div (2 ^ n)) + (a[1] % (2 ^ n)) * (2 ^ (16 - n))>>

shl(a, n) ==
    IF n >= 16 THEN <<(a[2] * (2 ^ (n - 16))) % 65536, 0>>
    ELSE <<((a[1] * (2 ^ n)) % 65536) + (a[2] \div (2 ^ (16 - n))), (a[2] * (2 ^ n)) % 65536>>

wrapping_add(a, b) ==
    LET lo == a[2] + b[2]
        hi == a[1] + b[1] + (lo \div 65536)
    IN <<hi % 65536, lo % 65536>>

\* a - b modulo 2^32
wrapping_sub(a, b) ==
    LET lo == a[2] + 65536 - b[2]
        hi == a[1] + 65536 - b[1] - (IF lo < 65536 THEN 1 ELSE 0)
    IN <<hi % 65536, lo % 65536>>

\* n as u32, for 0 <= n < 2^31
U32(n) == <<n \div 65536, n % 65536>>

U32Lt(a, b) == a[1] < b[1] \/ (a[1] = b[1] /\ a[2] < b[2])

U32Le(a, b) == a = b \/ U32Lt(a, b)

\* n as u64, for 0 <= n < 2^31
U64(n) == <<0, 0, n \div 65536, n % 65536>>

\* w as u64, for the u32 w
U64From32(w) == <<0, 0, w[1], w[2]>>

\* the limb sums of a + b with their carries, least significant first
U64Sums(a, b) ==
    LET s4 == a[4] + b[4]
        s3 == a[3] + b[3] + (s4 \div 65536)
        s2 == a[2] + b[2] + (s3 \div 65536)
        s1 == a[1] + b[1] + (s2 \div 65536)
    IN <<s1, s2, s3, s4>>

\* a + b modulo 2^64
U64Add(a, b) ==
    LET s == U64Sums(a, b)
    IN <<s[1] % 65536, s[2] % 65536, s[3] % 65536, s[4] % 65536>>

\* a + b does not fit in a u64
U64AddOverflows(a, b) == U64Sums(a, b)[1] >= 65536

\* a * 8 modulo 2^64
U64Mul8(a) ==
    LET m4 == a[4] * 8
        m3 == a[3] * 8 + (m4 \div 65536)
        m2 == a[2] * 8 + (m3 \div 65536)
        m1 == a[1] * 8 + (m2 \div 65536)
    IN <<m1 % 65536, m2 % 65536, m3 % 65536, m4 % 65536>>

rotr(x, n) == or(shr(x, n), shl(x, 32 - n))

ch(x, y, z) == xor(and(x, y), and(not(x), z))

maj(x, y, z) == xor(xor(and(x, y), and(x, z)), and(y, z))

bsig0_12(x) == xor(xor(rotr(x, 2), rotr(x, 12)), rotr(x, 22))

bsig0(x) == xor(xor(rotr(x, 2), rotr(x, 13)), rotr(x, 22))

bsig1(x) == xor(xor(rotr(x, 6), rotr(x, 11)), rotr(x, 25))

ssig0(x) == xor(xor(rotr(x, 7), rotr(x, 18)), shr(x, 3))

ssig1(x) == xor(xor(rotr(x, 17), rotr(x, 19)), shr(x, 10))

K == <<
    <<17034, 12184>>, <<28983, 17553>>, <<46528, 64463>>, <<59829, 56229>>,
    <<14678, 49755>>, <<23025, 4593>>, <<37439, 33444>>, <<43804, 24277>>,
    <<55303, 43672>>, <<4739, 23297>>, <<9265, 34238>>, <<21772, 32195>>,
    <<29374, 23924>>, <<32990, 45566>>, <<39900, 1703>>, <<49563, 61812>>,
    <<58523, 27073>>, <<61374, 18310>>, <<4033, 40390>>, <<9228, 41420>>,
    <<11753, 11375>>, <<19060, 33962>>, <<23728, 43484>>, <<30457, 35034>>,
    <<38974, 20818>>, <<43057, 50797>>, <<45059, 10184>>, <<48985, 32711>>,
    <<50912, 3059>>, <<54695, 37191>>, <<1738, 25425>>, <<5161, 10599>>,
    <<10167, 2693>>, <<11803, 8504>>, <<19756, 28156>>, <<21304, 3347>>,
    <<25866, 29524>>, <<30314, 2747>>, <<33218, 51502>>, <<37490, 11397>>,
    <<41663, 59553>>, <<43034, 26187>>, <<49739, 35696>>, <<51052, 20899>>,
    <<53650, 59417>>, <<54937, 1572>>, <<62478, 13701>>, <<4202, 41072>>,
    <<6564, 49430>>, <<7735, 27656>>, <<10056, 30540>>, <<13488, 48309>>,
    <<14620, 3251>>, <<20184, 43594>>, <<23452, 51791>>, <<26670, 28659>>,
    <<29839, 33518>>, <<30885, 25455>>, <<33992, 30740>>, <<36039, 520>>,
    <<37054, 65530>>, <<42064, 27883>>, <<48889, 41975>>, <<50801, 30962>>
    >>

H_INIT == <<
    <<27145, 58983>>, <<47975, 44677>>, <<15470, 62322>>, <<42319, 62778>>,
    <<20750, 21119>>, <<39685, 26764>>, <<8067, 55723>>, <<23520, 52505>>
    >>

\* Arrays are sequences; At and Put use the source's 0-based indices.
At(a, i) == a[i + 1]

Put(a, i, b) == [a EXCEPT ![i + 1] = b]

(***************************************************************************)
(* Sha256Ctx::transform                                                    *)
(***************************************************************************)
\* w[i] for i in 0..15: four block bytes read big-endian.
LoadWord(block, i) ==
    LET j == i * 4
    IN <<At(block, j) * 256 + At(block, j + 1), At(block, j + 2) * 256 + At(block, j + 3)>>

\* w[i] for i in 16..63, appended to the schedule built so far (w[0..i-1]).
ScheduleStep(w, i) ==
    Append(w, wrapping_add(wrapping_add(wrapping_add(ssig1(At(w, i - 2)), At(w, i - 7)),
                                        ssig0(At(w, i - 15))), At(w, i - 16)))

\* The loop "for i in 16..64" over the indices lo..hi, split in halves so
\* that the evaluation depth stays logarithmic.
RECURSIVE Schedule(_, _, _)
Schedule(w, lo, hi) ==
    IF lo = hi THEN ScheduleStep(w, lo)
    ELSE LET mid == (lo + hi) \div 2
         IN CHOOSE r \in {Schedule(x, mid + 1, hi) : x \in {Schedule(w, lo, mid)}} : TRUE

\* One iteration of the main compression loop on v = <<a,b,c,d,e,f,g,h>>.
Round(v, w, i) ==
    LET t1 == wrapping_add(wrapping_add(wrapping_add(wrapping_add(
                  v[8], bsig1(v[5])), ch(v[5], v[6], v[7])), At(K, i)), At(w, i))
        t2 == wrapping_add(bsig0(v[1]), maj(v[1], v[2], v[3]))
    IN <<wrapping_add(t1, t2), v[1], v[2], v[3], wrapping_add(v[4], t1), v[5], v[6], v[7]>>

RECURSIVE Rounds(_, _, _, _)
Rounds(v, w, lo, hi) ==
    IF lo = hi THEN Round(v, w, lo)
    ELSE LET mid == (lo + hi) \div 2
         IN CHOOSE r \in {Rounds(x, w, mid + 1, hi) : x \in {Rounds(v, w, lo, mid)}} : TRUE

\* The state words after compressing one 64-byte block.
Compress(hh, block) ==
    LET w0 == <<LoadWord(block, 0), LoadWord(block, 1), LoadWord(block, 2), LoadWord(block, 3),
                LoadWord(block, 4), LoadWord(block, 5), LoadWord(block, 6), LoadWord(block, 7),
                LoadWord(block, 8), LoadWord(block, 9), LoadWord(block, 10), LoadWord(block, 11),
                LoadWord(block, 12), LoadWord(block, 13), LoadWord(block, 14), LoadWord(block, 15)>>
        w == Schedule(w0, 16, 63)
        v == Rounds(hh, w, 0, 63)
    IN <<wrapping_add(hh[1], v[1]), wrapping_add(hh[2], v[2]), wrapping_add(hh[3], v[3]),
         wrapping_add(hh[4], v[4]), wrapping_add(hh[5], v[5]), wrapping_add(hh[6], v[6]),
         wrapping_add(hh[7], v[7]), wrapping_add(hh[8], v[8])>>

(***************************************************************************)
(* A call works on a record c: the four fields of Sha256Ctx, and what the  *)
(* call did, kept for the properties:                                      *)
(*   blocks  the 64-byte blocks handed to transform, in order              *)
(*   idx     the buffer indices written                                    *)
(*   peak    the largest value buflen held                                 *)
(*   early   update returned from inside the partial-block branch          *)
(*   panic   the call entered the panic handler: an index left its array   *)
(*           (Rust's bounds check) or, in a build with overflow checks,    *)
(*           an addition overflowed.  The handler never returns, so every  *)
(*           later statement of the call leaves the record as it is.       *)
(*   checks  the build has overflow checks                                 *)
(*                                                                         *)
(* h is the eight state words.  Where a run of blocks is too long to be    *)
(* compressed (the 2^26 blocks of a 4 GiB span), h is the term             *)
(* <<h before, blocks>> that denotes the words after them, unevaluated.    *)
(***************************************************************************)
Max(a, b) == IF a >= b THEN a ELSE b

\* n zero bytes, n <= 64
Zeros(n) ==
    SubSeq(<<0, 0, 0, 0, 0, 0, 0, 0, 0, 0, 0, 0, 0, 0, 0, 0,
             0, 0, 0, 0, 0, 0, 0, 0, 0, 0, 0, 0, 0, 0, 0, 0,
             0, 0, 0, 0, 0, 0, 0, 0, 0, 0, 0, 0, 0, 0, 0, 0,
             0, 0, 0, 0, 0, 0, 0, 0, 0, 0, 0, 0, 0, 0, 0, 0>>, 1, n)

Enter(hh, buf, bl, bits) ==
    [h |-> hh, buffer |-> buf, buflen |-> bl, bitlen |-> bits,
     blocks |-> <<>>, idx |-> {}, peak |-> bl, early |-> FALSE, panic |-> FALSE,
     checks |-> (build = "debug")]

\* ctx.buflen = n
SetBuflen(c, n) ==
    IF c.panic THEN c ELSE [c EXCEPT !.buflen = n, !.peak = Max(@, n)]

\* ctx.buffer[i] = b
SetByte(c, i, b) ==
    IF c.panic THEN c
    ELSE IF i \in 0..63
    THEN [c EXCEPT !.buffer = Put(@, i, b), !.idx = @ \cup {i}]
    ELSE [c EXCEPT !.idx = @ \cup {i}, !.panic = TRUE]

Min(a, b) == IF a <= b THEN a ELSE b

\* for j in 0..n { ctx.buffer[off + j] = data_slice[start + j] }
\* The first m bytes are written; an index out of either array stops the
\* loop there.
CopyIn(c, off, data, start, n) ==
    IF c.panic THEN c
    ELSE LET m == Max(0, Min(n, Min(64 - off, Len(data) - start)))
             w == IF m = 0 THEN c
                  ELSE [c EXCEPT !.buffer = SubSeq(@, 1, off)
                                            \o SubSeq(data, start + 1, start + m)
                                            \o SubSeq(@, off + m + 1, 64),
                                 !.idx = @ \cup (off .. (off + m - 1))]
         IN IF m = n THEN w
            ELSE [w EXCEPT !.idx = IF off + m > 63 THEN @ \cup {off + m} ELSE @,
                           !.panic = TRUE]

\* while ctx.buflen < limit { ctx.buffer[ctx.buflen] = 0; ctx.buflen += 1 }
ZeroFill_nowrite(c, limit) ==
    IF ~c.panic /\ c.buflen < limit
    THEN [c EXCEPT !.idx = @ \cup (c.buflen .. (limit - 1)),
                   !.buflen = limit,
                   !.peak = Max(@, limit)]
    ELSE c

ZeroFill(c, limit) ==
    IF ~c.panic /\ c.buflen < limit
    THEN [c EXCEPT !.buffer = SubSeq(@, 1, c.buflen) \o Zeros(limit - c.buflen)
                                  \o SubSeq(@, limit + 1, 64),
                   !.idx = @ \cup (c.buflen .. (limit - 1)),
                   !.buflen = limit,
                   !.peak = Max(@, limit)]
    ELSE c

\* ctx.transform(&block)
transform(c, block) ==
    IF c.panic THEN c
    ELSE [c EXCEPT !.h = IF Len(c.h) = 8 THEN Compress(c.h, block) ELSE <<c.h, block>>,
                   !.blocks = Append(@, block)]

rust_sha256_init(c) ==
    [SetBuflen(c, 0) EXCEPT !.h = H_INIT, !.bitlen = U64(0)]

\* while i + 64 <= len { transform(&data_slice[i..i + 64]); i += 64 }
\* Returns <<c, i>>.
RECURSIVE BlockLoop(_, _, _, _)
BlockLoop(c, data, len, i) ==
    IF ~c.panic /\ i + 64 <= len
    THEN CHOOSE r \in {BlockLoop(x, data, len, i + 64) :
                          x \in {transform(c, SubSeq(data, i + 1, i + 64))}} : TRUE
    ELSE <<c, i>>

\* if i < len { copy the remainder to the buffer; ctx.buflen = rem }
Remainder_fromstart(c, data, len, i) ==
    IF i < len
    THEN LET rem == len - i
         IN SetBuflen(CopyIn(c, 0, data, 0, rem), rem)
    ELSE c

Remainder(c, data, len, i) ==
    IF i < len
    THEN LET rem == len - i
         IN SetBuflen(CopyIn(c, 0, data, i, rem), rem)
    ELSE c

\* ctx.bitlen += (len as u64) * 8, for the u32 len: with overflow checks an
\* overflowing sum panics before it is stored, without them it wraps
AddBits(c, len) ==
    LET add == U64Mul8(U64From32(len))
    IN IF c.panic THEN c
       ELSE IF c.checks /\ U64AddOverflows(c.bitlen, add) THEN [c EXCEPT !.panic = TRUE]
       ELSE [c EXCEPT !.bitlen = U64Add(@, add)]

\* if len < need, on u32: the span only extends the partial block
FitsPartial_le(len, need) == U32Le(len, need)

FitsPartial(len, need) == U32Lt(len, need)

\* The count of a copy loop into the 64-byte buffer, for the u32 count w:
\* the loop stops at the first index out of the buffer, so every count
\* above 65 acts as 65.
CopyCount(w) == IF w[1] > 0 \/ w[2] > 65 THEN 65 ELSE w[2]

\* The else branch: complete the partial block, transform it, ctx.buflen = 0,
\* i += need.  Returns <<c, i>>; a copy that panics leaves i at 0.
FillBlock_noadvance(c, data, need) ==
    LET f == CopyIn(c, c.buflen, data, 0, need)
    IN <<SetBuflen(transform(f, f.buffer), 0), 0>>

FillBlock(c, data, need) ==
    LET f == CopyIn(c, c.buflen, data, 0, need)
    IN <<SetBuflen(transform(f, f.buffer), 0), IF f.panic THEN 0 ELSE need>>

\* The then branch: the span extends the partial block; return.
ExtendPartial(c, data, len) ==
    LET r == SetBuflen(CopyIn(c, c.buflen, data, 0, len), c.buflen + len)
    IN IF r.panic THEN r ELSE [r EXCEPT !.early = TRUE]

\* if ctx.buflen > 0 { let need = 64 - ctx.buflen; ... }, for the u32 len:
\* lines 154-172.  64 - ctx.buflen is a u32 subtraction: below zero it panics
\* with overflow checks and wraps without them.  Returns <<c, i>>.
PartialBlock(c, data, len) ==
    IF c.buflen = 0 \/ c.panic THEN <<c, 0>>
    ELSE IF c.buflen > 64 /\ c.checks THEN <<[c EXCEPT !.panic = TRUE], 0>>
    ELSE LET need == wrapping_sub(U32(64), U32(c.buflen))
         IN IF FitsPartial(len, need)
            THEN <<ExtendPartial(c, data, CopyCount(len)), 0>>
            ELSE FillBlock(c, data, CopyCount(need))

\* Everything after the bit count: lines 151-187.
UpdateBody(c, data, len) ==
    LET st == PartialBlock(c, data, U32(len))
    IN IF st[1].early THEN st[1]
       ELSE LET lp == BlockLoop(st[1], data, len, st[2])
            IN Remainder(lp[1], data, len, lp[2])

rust_sha256_update_lateadd(c, data, len) ==
    LET r == UpdateBody(c, data, len)
    IN IF r.early THEN r ELSE AddBits(r, U32(len))

rust_sha256_update(c, data, len) == UpdateBody(AddBits(c, U32(len)), data, len)

\* (bits >> s) as u8, for the u64 bits and 0 <= s <= 63
U64Byte(bits, s) ==
    LET k == 4 - (s \div 16)
        r == s % 16
        above == IF k > 1 THEN bits[k - 1] ELSE 0
    IN ((bits[k] \div (2 ^ r)) + (above % (2 ^ r)) * (2 ^ (16 - r))) % 256

\* ctx.buffer[56 + k] = (bits >> (56 - 8k)) as u8, k = 0..7
AppendLength_le(c, bits) ==
    IF c.panic THEN c ELSE
    [c EXCEPT !.buffer = SubSeq(@, 1, 56) \o
                  <<U64Byte(bits, 0), U64Byte(bits, 8), U64Byte(bits, 16), U64Byte(bits, 24),
                    U64Byte(bits, 32), U64Byte(bits, 40), U64Byte(bits, 48), U64Byte(bits, 56)>>,
              !.idx = @ \cup (56 .. 63)]

AppendLength(c, bits) ==
    IF c.panic THEN c ELSE
    [c EXCEPT !.buffer = SubSeq(@, 1, 56) \o
                  <<U64Byte(bits, 56), U64Byte(bits, 48), U64Byte(bits, 40), U64Byte(bits, 32),
                    U64Byte(bits, 24), U64Byte(bits, 16), U64Byte(bits, 8), U64Byte(bits, 0)>>,
              !.idx = @ \cup (56 .. 63)]

\* out_slice[i*4 .. i*4+3] = the bytes of ctx.h[i], most significant first
WordBytes(val) == <<val[1] \div 256, val[1] % 256, val[2] \div 256, val[2] % 256>>

OutputHash(hh) ==
    WordBytes(hh[1]) \o WordBytes(hh[2]) \o WordBytes(hh[3]) \o WordBytes(hh[4]) \o
    WordBytes(hh[5]) \o WordBytes(hh[6]) \o WordBytes(hh[7]) \o WordBytes(hh[8])

\* if ctx.buflen > 56 { zero-fill to 64; transform; ctx.buflen = 0 }
PadOverflow_57(c) ==
    IF c.buflen > 57
    THEN LET f == ZeroFill(c, 64)
         IN SetBuflen(transform(f, f.buffer), 0)
    ELSE c

PadOverflow(c) ==
    IF c.buflen > 56
    THEN LET f == ZeroFill(c, 64)
         IN SetBuflen(transform(f, f.buffer), 0)
    ELSE c

\* Returns <<c, out_hash32>>.
rust_sha256_final(c) ==
    LET bits == c.bitlen
        c1 == SetBuflen(SetByte(c, c.buflen, 128), c.buflen + 1)
        c2 == PadOverflow(c1)
        c3 == ZeroFill(c2, 56)
        c4 == AppendLength(c3, bits)
        c5 == transform(c4, c4.buffer)
    IN <<c5, OutputHash(c5.h)>>

HEX_CHARS == <<48, 49, 50, 51, 52, 53, 54, 55, 56, 57, 97, 98, 99, 100, 101, 102>>

\* hex_slice after the call: two characters per byte, then the terminator.
rust_sha256_to_hex_swapped(hash32, hex_out) ==
    [k \in 1..65 |->
        IF k = 65 THEN 0
        ELSE LET b == At(hash32, (k - 1) \div 2)
             IN IF (k - 1) % 2 = 0 THEN At(HEX_CHARS, b % 16)
                ELSE At(HEX_CHARS, b \div 16)]

rust_sha256_to_hex(hash32, hex_out) ==
    [k \in 1..65 |->
        IF k = 65 THEN 0
        ELSE LET b == At(hash32, (k - 1) \div 2)
             IN IF (k - 1) % 2 = 0 THEN At(HEX_CHARS, b \div 16)
                ELSE At(HEX_CHARS, b % 16)]

(***************************************************************************)
(* Bounds and inputs                                                       *)
(***************************************************************************)
\* update calls made on the context over its whole life
MaxUpdates == 3

\* rust_sha256_init calls made on the context over its whole life
MaxInits == 2

\* span lengths handed to update: empty, one byte, "abc", the padding
\* boundaries, one block, two blocks
Lens == {0, 1, 3, 55, 56, 63, 64, 128}

\* span lengths used when the context is re-initialised and reused
ReuseLens == {0, 3, 56, 64}

\* The bytes the caller hashes: "abc", then bytes of every kind.  A span
\* handed to update continues the stream where the span before it ended
\* (fed, the bytes handed to update over the context's life); init does not
\* rewind it, so a later message differs from the bytes an earlier one left
\* in the buffer.
SourceByte(p) == IF p < 3 THEN 97 + p ELSE (p * 167 + 13) % 256

\* SourceByte(p) depends on p through p < 3 and p mod 256 only: a position
\* below 2^31 with the byte of the u64 position pos.
StreamKey(pos) ==
    IF pos[1] = 0 /\ pos[2] = 0 /\ pos[3] = 0 /\ pos[4] < 3 THEN pos[4]
    ELSE 256 + (pos[4] % 256)

\* the n bytes of the stream from the u64 offset pos
DataAt(pos, n) == [j \in 1..n |-> SourceByte(StreamKey(U64Add(pos, U64(j - 1))))]

(***************************************************************************)
(* The caller's view: one context, one digest buffer, one text buffer      *)
(***************************************************************************)
NoCall == [op |-> "none", len |-> 0, pre |-> 0, nt |-> 0, peak |-> 0, idx |-> {}, early |-> FALSE]

Call(name, n, pre, c) ==
    [op |-> name, len |-> n, pre |-> pre, nt |-> Len(c.blocks), peak |-> c.peak,
     idx |-> c.idx, early |-> c.early]

InitCommon ==
    /\ h = [i \in 1..8 |-> <<0, 0>>]
    /\ buffer = Zeros(64)
    /\ buflen = 0
    /\ bitlen = U64(0)
    /\ out = [i \in 1..32 |-> 255]
    /\ hex = [i \in 1..65 |-> 255]
    /\ phase = "uninit"
    /\ hexed = FALSE
    /\ msg = <<>>
    /\ blocks = <<>>
    /\ nupd = 0
    /\ inits = 0
    /\ last = NoCall
    /\ upc = "idle"
    /\ ulen = <<0, 0>>
    /\ ui = <<0, 0>>
    /\ udata = U64(0)
    /\ fed = U64(0)

Init == InitCommon /\ build = "debug"

InitCall ==
    \E c \in {rust_sha256_init(Enter(h, buffer, buflen, bitlen))} :
       /\ h' = c.h
       /\ buffer' = c.buffer
       /\ buflen' = c.buflen
       /\ bitlen' = c.bitlen
       /\ phase' = "ready"
       /\ hexed' = FALSE
       /\ msg' = <<>>
       /\ blocks' = <<>>
       /\ inits' = inits + 1
       /\ last' = Call("init", 0, buflen, c)
       /\ UNCHANGED <<out, hex, nupd, build, upc, ulen, ui, udata, fed>>

\* rust_sha256_init on the context the caller has just allocated
DoInit ==
    /\ phase = "uninit"
    /\ upc = "idle"
    /\ inits < MaxInits
    /\ InitCall

\* rust_sha256_init on a context that holds an earlier message
DoReinit ==
    /\ phase \in {"ready", "finalized"}
    /\ upc = "idle"
    /\ inits < MaxInits
    /\ InitCall

DoUpdate(len) ==
    /\ phase = "ready"
    /\ upc = "idle"
    /\ nupd < MaxUpdates
    /\ \E data \in {DataAt(fed, len)} :
       \E c \in {rust_sha256_update(Enter(h, buffer, buflen, bitlen), data, len)} :
          /\ h' = c.h
          /\ buffer' = c.buffer
          /\ buflen' = c.buflen
          /\ bitlen' = c.bitlen
          /\ phase' = IF c.panic THEN "panic" ELSE "ready"
          /\ msg' = msg \o data
          /\ fed' = U64Add(fed, U64(len))
          /\ blocks' = blocks \o c.blocks
          /\ nupd' = nupd + 1
          /\ last' = Call("update", len, buflen, c)
          /\ UNCHANGED <<out, hex, hexed, inits, build, upc, ulen, ui, udata>>

DoFinal ==
    /\ phase = "ready"
    /\ upc = "idle"
    /\ \E r \in {rust_sha256_final(Enter(h, buffer, buflen, bitlen))} :
       \E c \in {r[1]} :
          /\ h' = c.h
          /\ buffer' = c.buffer
          /\ buflen' = c.buflen
          /\ bitlen' = c.bitlen
          /\ out' = IF c.panic THEN out ELSE r[2]
          /\ phase' = IF c.panic THEN "panic" ELSE "finalized"
          /\ hexed' = FALSE
          /\ blocks' = blocks \o c.blocks
          /\ last' = Call("final", 0, buflen, c)
          /\ UNCHANGED <<hex, msg, nupd, inits, build, upc, ulen, ui, udata, fed>>

DoToHex ==
    /\ phase = "finalized"
    /\ upc = "idle"
    /\ hex' = rust_sha256_to_hex(out, hex)
    /\ hexed' = TRUE
    /\ UNCHANGED <<h, buffer, buflen, bitlen, out, phase, msg, blocks, nupd, inits, last,
                   build, upc, ulen, ui, udata, fed>>

Next ==
    \/ DoInit
    \/ \E len \in Lens : DoUpdate(len)
    \/ DoFinal
    \/ DoToHex

Spec == Init /\ [][Next]_vars

NextReuse ==
    \/ DoInit
    \/ DoReinit
    \/ \E len \in ReuseLens : DoUpdate(len)
    \/ DoFinal

SpecReuse == Init /\ [][NextReuse]_vars

(***************************************************************************)
(* rust_sha256_update at full u32 width, one step per branch or loop       *)
(* iteration.                                                              *)
(*                                                                         *)
(* len and i are u32 pairs <<hi, lo>>: ulen is the argument len, ui the    *)
(* local i, upc the position in the function, udata the argument data      *)
(* (the stream offset of the span's first byte).  build is the compilation *)
(* profile: "debug" traps an overflowing addition, "release" wraps it.  A  *)
(* trapped addition or a failed bounds check enters the panic handler,     *)
(* which never returns.                                                    *)
(*                                                                         *)
(* A span of up to 4 GiB is not written out: each step reads from the      *)
(* stream the bytes it copies or transforms.  msg holds a span of 2^16     *)
(* bytes or more as its place in the stream, and so does blocks for the    *)
(* blocks of IdxLoopRun; last belongs to the calls taken as one step and   *)
(* is not kept here.                                                       *)
(***************************************************************************)
BuildProfiles == {"debug", "release"}

\* a + b does not fit in a u32
AddOverflows(a, b) == a[1] + b[1] + ((a[2] + b[2]) \div 65536) >= 65536

\* iterations of the block loop still to run from position i: (len - i) / 64
BlocksLeft(len, i) ==
    LET d == wrapping_sub(len, i) IN d[1] * 1024 + (d[2] \div 64)

\* the block loop's last iterations are followed one by one, and so is
\* every iteration of a span with no more blocks than this
LoopTail == 4

\* the longest run of blocks IdxLoopRun compresses; a longer one is left as
\* a term
EvalBlocks == 64

\* span lengths at both ends of the u32 range: 0, 1, 63, 64, 65, 200, 400,
\* 2^31, 2^32 - 65, 2^32 - 64, 2^32 - 1
IdxLens ==
    {<<0, 0>>, <<0, 1>>, <<0, 63>>, <<0, 64>>, <<0, 65>>, <<0, 200>>, <<0, 400>>,
     <<32768, 0>>, <<65535, 65471>>, <<65535, 65472>>, <<65535, 65535>>}

\* the stream offset of data_slice[i]
SliceAt(i) == U64Add(udata, U64From32(i))

\* the span update is given, as msg holds it
Span(pos, len) ==
    IF len[1] = 0 THEN DataAt(pos, len[2]) ELSE <<[at |-> pos, len |-> len]>>

\* k iterations of "transform(&data_slice[i..i + 64]); i += 64" on the blocks
\* that start at stream offset pos
RECURSIVE RunBlocks(_, _, _)
RunBlocks(c, pos, k) ==
    IF k = 0 THEN c
    ELSE CHOOSE r \in {RunBlocks(x, U64Add(pos, U64(64)), k - 1) :
                          x \in {transform(c, DataAt(pos, 64))}} : TRUE

\* the same, left unevaluated when the run is longer than EvalBlocks
TransformRun(c, pos, k) ==
    IF k <= EvalBlocks /\ Len(c.h) = 8
    THEN RunBlocks(c, pos, k)
    ELSE [c EXCEPT !.h = <<c.h, [at |-> pos, n |-> k]>>,
                   !.blocks = Append(@, [at |-> pos, n |-> k])]

InitIdx == InitCommon /\ build \in BuildProfiles

\* entry: ctx.bitlen += (len as u64) * 8; let mut i = 0
IdxEnter(len) ==
    /\ phase = "ready"
    /\ upc = "idle"
    /\ nupd < MaxUpdates
    /\ \E c \in {AddBits(Enter(h, buffer, buflen, bitlen), len)} :
          /\ bitlen' = c.bitlen
          /\ upc' = IF c.panic THEN "panic" ELSE "fill"
    /\ ulen' = len
    /\ ui' = U32(0)
    /\ udata' = fed
    /\ fed' = U64Add(fed, U64From32(len))
    /\ msg' = msg \o Span(fed, len)
    /\ nupd' = nupd + 1
    /\ UNCHANGED <<h, buffer, buflen, out, hex, phase, hexed, blocks, inits, last, build>>

\* if ctx.buflen > 0 { ... }: lines 154-172
IdxFill ==
    /\ upc = "fill"
    /\ \E r \in {PartialBlock(Enter(h, buffer, buflen, bitlen),
                              DataAt(udata, CopyCount(ulen)), ulen)} :
          /\ h' = r[1].h
          /\ buffer' = r[1].buffer
          /\ buflen' = r[1].buflen
          /\ blocks' = blocks \o r[1].blocks
          /\ ui' = wrapping_add(ui, U32(r[2]))
          /\ upc' = IF r[1].panic THEN "panic" ELSE IF r[1].early THEN "idle" ELSE "loop"
    /\ UNCHANGED <<bitlen, out, hex, phase, hexed, msg, nupd, inits, last, build, ulen,
                   udata, fed>>

\* All but the last LoopTail iterations of "while i + 64 <= len", taken
\* together: each of them finds i + 64 <= len without overflow, transforms
\* data_slice[i..i + 64] and adds 64 to i.
IdxLoopRun ==
    /\ upc = "loop"
    /\ BlocksLeft(ulen, ui) > LoopTail
    /\ \E k \in {BlocksLeft(ulen, ui) - LoopTail} :
       \E c \in {TransformRun(Enter(h, buffer, buflen, bitlen), SliceAt(ui), k)} :
          /\ h' = c.h
          /\ blocks' = blocks \o c.blocks
          /\ ui' = wrapping_add(ui, <<k \div 1024, (k % 1024) * 64>>)
    /\ UNCHANGED <<buffer, buflen, bitlen, out, hex, phase, hexed, msg, nupd, inits, last,
                   build, upc, ulen, udata, fed>>

\* One evaluation of "while i + 64 <= len" and, when it holds, one body:
\* transform(&data_slice[i..i + 64]); i += 64
IdxLoopStep ==
    /\ upc = "loop"
    /\ BlocksLeft(ulen, ui) <= LoopTail
    /\ IF AddOverflows(ui, U32(64)) /\ build = "debug"
       THEN upc' = "panic" /\ UNCHANGED <<ui, h, blocks>>
       ELSE \E end \in {wrapping_add(ui, U32(64))} :
               IF U32Le(end, ulen)
               THEN IF U32Lt(end, ui)
                    THEN upc' = "panic" /\ UNCHANGED <<ui, h, blocks>>
                    ELSE \E c \in {transform(Enter(h, buffer, buflen, bitlen),
                                             DataAt(SliceAt(ui), 64))} :
                            /\ h' = c.h
                            /\ blocks' = blocks \o c.blocks
                            /\ ui' = end
                            /\ upc' = "loop"
               ELSE upc' = "rem" /\ UNCHANGED <<ui, h, blocks>>
    /\ UNCHANGED <<buffer, buflen, bitlen, out, hex, phase, hexed, msg, nupd, inits, last,
                   build, ulen, udata, fed>>

\* if i < len { rem = len - i; copy; ctx.buflen = rem }, then return
IdxRem ==
    /\ upc = "rem"
    /\ IF U32Lt(ui, ulen)
       THEN \E rem \in {wrapping_sub(ulen, ui)} :
               IF rem[1] > 0
               THEN upc' = "panic" /\ UNCHANGED <<buffer, buflen>>
               ELSE \E c \in {LET c0 == Enter(h, buffer, buflen, bitlen)
                              IN SetBuflen(CopyIn(c0, 0, DataAt(SliceAt(ui), rem[2]), 0, rem[2]),
                                           rem[2])} :
                       /\ buffer' = c.buffer
                       /\ buflen' = c.buflen
                       /\ upc' = IF c.panic THEN "panic" ELSE "idle"
       ELSE upc' = "idle" /\ UNCHANGED <<buffer, buflen>>
    /\ UNCHANGED <<h, bitlen, out, hex, phase, hexed, msg, blocks, nupd, inits, last,
                   build, ulen, ui, udata, fed>>

NextIdx ==
    \/ DoInit
    \/ \E len \in IdxLens : IdxEnter(len)
    \/ IdxFill
    \/ IdxLoopRun
    \/ IdxLoopStep
    \/ IdxRem

SpecIdx == InitIdx /\ [][NextIdx]_vars

(***************************************************************************)
(* Properties                                                              *)
(***************************************************************************)
\* A context as the caller allocates it: zero-initialised.
FreshCtx == Enter([i \in 1..8 |-> <<0, 0>>], Zeros(64), 0, U64(0))

\* init, one update with all of M, on the context c0.
OneUpdate(c0, M) == rust_sha256_update(rust_sha256_init(c0), M, Len(M))

\* init, one update with all of M, final, on the context c0: <<c, digest>>.
OneShot(c0, M) == rust_sha256_final(OneUpdate(c0, M))

\* C1: streaming equivalence.  However the message was split into spans,
\* the context after the updates has the state words, pending bytes and bit
\* count that a single update with the whole message leaves, and after final
\* the digest and the sequence of transformed blocks are those of init, one
\* update with the whole message, final.
C1_StreamingEquivalence ==
    /\ phase = "ready" =>
          LET c == OneUpdate(FreshCtx, msg)
          IN /\ h = c.h
             /\ buflen = c.buflen
             /\ bitlen = c.bitlen
             /\ SubSeq(buffer, 1, buflen) = SubSeq(c.buffer, 1, c.buflen)
             /\ blocks = c.blocks
    /\ phase = "finalized" =>
          LET r == OneShot(FreshCtx, msg)
          IN out = r[2] /\ blocks = r[1].blocks

\* A 67-byte message fed in two spans (3 then 64, or 64 then 3: the lengths
\* offered have no other way to 67), so a span straddles the block boundary.
C1_Witness ==
    /\ phase = "finalized"
    /\ nupd = 2
    /\ Len(msg) = 67
    /\ Len(blocks) = 2

EmptyDigest ==
    <<227, 176, 196, 66, 152, 252, 28, 20,
      154, 251, 244, 200, 153, 111, 185, 36,
      39, 174, 65, 228, 100, 155, 147, 76,
      164, 149, 153, 27, 120, 82, 184, 85>>

AbcDigest ==
    <<186, 120, 22, 191, 143, 1, 207, 234,
      65, 65, 64, 222, 93, 174, 34, 35,
      176, 3, 97, 163, 150, 23, 122, 156,
      180, 16, 255, 97, 242, 0, 21, 173>>

\* C2: known-answer vectors.  init, final gives the digest e3b0c442...;
\* init, update("abc"), final gives ba7816bf....
C2_KnownAnswers ==
    phase = "finalized" =>
        /\ msg = <<>> => out = EmptyDigest
        /\ msg = <<97, 98, 99>> => out = AbcDigest

C2_Witness ==
    /\ phase = "finalized"
    /\ msg = <<97, 98, 99>>
    /\ last.op = "final"
    /\ last.nt = 1

\* C3: update is total for every initialised context and every u32 length:
\* it never reaches the panic handler.
C3_UpdateIsTotal == upc # "panic"

\* C4 as stated: a final entered with 55 or 56 buffered bytes runs one
\* transform, with 57 to 63 it runs two, and two never occur below 57.
C4_PaddingBoundary_Stated ==
    last.op = "final" =>
        /\ last.pre \in {55, 56} => last.nt = 1
        /\ last.pre \in 57..63 => last.nt = 2
        /\ last.nt = 2 => last.pre >= 57

\* C4 amended: a final entered with 55 buffered bytes runs exactly one
\* transform (55 is the exact fit); with 56 to 63 buffered bytes it runs
\* exactly two; two never occur for fewer than 56 buffered bytes.
C4_PaddingBoundary ==
    last.op = "final" =>
        /\ last.nt \in {1, 2}
        /\ last.pre = 55 => last.nt = 1
        /\ last.pre \in 56..63 => last.nt = 2
        /\ last.nt = 2 => last.pre >= 56

C4_Witness ==
    /\ last.op = "final"
    /\ last.pre = 56
    /\ last.nt = 2

\* C5: buflen is in 0..63 on return from init and from every update; it is
\* 64 only inside final, exactly when the pad-triggered transform runs, and
\* no write to buffer in update or final uses an index outside 0..63.
C5_BuflenRange ==
    /\ phase # "panic"
    /\ phase = "ready" => buflen \in 0..63
    /\ last.op \in {"init", "update"} => last.peak <= 63
    /\ last.op = "final" =>
          /\ last.peak <= 64
          /\ last.peak = 64 <=> last.nt = 2
          /\ phase = "finalized" => buflen = 56
    /\ last.idx \subseteq 0..63

C5_Witness ==
    /\ last.op = "final"
    /\ last.peak = 64
    /\ last.pre = 63

\* C6: bitlen is 8 times the number of bytes passed to update since init,
\* whichever path each update took; final leaves it alone.
C6_BitLength ==
    phase \in {"ready", "finalized"} => bitlen = U64(8 * Len(msg))

\* An update that returned from the partial-block branch, with bytes.
C6_Witness ==
    /\ phase = "ready"
    /\ last.op = "update"
    /\ last.early
    /\ last.len > 0
    /\ last.pre > 0

\* C7: between updates buflen is |M| mod 64, buffer[0..buflen) is the tail
\* of M not yet transformed, and floor(|M| / 64) blocks have been
\* transformed.
C7_BufferIsTail ==
    phase = "ready" =>
        /\ buflen = Len(msg) % 64
        /\ SubSeq(buffer, 1, buflen) = SubSeq(msg, Len(msg) - buflen + 1, Len(msg))
        /\ Len(blocks) = Len(msg) \div 64

\* An update entered with a partial block whose span ends on a block boundary.
C7_Witness ==
    /\ phase = "ready"
    /\ last.op = "update"
    /\ last.pre > 0
    /\ last.len > 0
    /\ Len(msg) = 64
    /\ buflen = 0

\* C8: init sets the eight initial words, buflen = 0 and bitlen = 0 whatever
\* the context held; a second init changes nothing more; and what a message
\* hashed after init leaves (state words, pending bytes, bit count, digest)
\* is what it leaves on a zeroed context, whatever an earlier message left
\* in the buffer; hashing it once more on the used context gives the same
\* digest again.
C8_InitFresh ==
    /\ last.op = "init" => h = H_INIT /\ buflen = 0 /\ bitlen = U64(0)
    /\ LET c == rust_sha256_init(Enter(h, buffer, buflen, bitlen))
       IN rust_sha256_init(c) = c
    /\ phase = "ready" =>
          LET c == OneUpdate(FreshCtx, msg)
          IN /\ h = c.h
             /\ buflen = c.buflen
             /\ bitlen = c.bitlen
             /\ SubSeq(buffer, 1, buflen) = SubSeq(c.buffer, 1, c.buflen)
    /\ phase = "finalized" =>
          /\ out = OneShot(FreshCtx, msg)[2]
          /\ OneShot(Enter(h, buffer, buflen, bitlen), msg)[2] = out

\* A 3-byte message hashed after the second init, on a context whose buffer
\* holds the 56 bytes of the message before it: final's zero fill runs over
\* stale bytes.
C8_Witness ==
    /\ phase = "finalized"
    /\ inits = 2
    /\ Len(msg) = 3
    /\ fed = U64(59)
    /\ \E k \in 5..56 : buffer[k] = 0 /\ SourceByte(k - 1) # 0

HexDigit(n) == IF n < 10 THEN 48 + n ELSE 87 + n

HexAlphabet == (48..57) \cup (97..102)

\* C9: to_hex writes 65 bytes: for input byte i the digit of its high nibble
\* at 2i and of its low nibble at 2i + 1, all in 0-9a-f, then a zero byte;
\* encoding the digest again gives the same text.
C9_HexEncoding ==
    hexed =>
        /\ Len(hex) = 65
        /\ \A i \in 0..31 :
              /\ At(hex, 2 * i) = HexDigit(At(out, i) \div 16)
              /\ At(hex, 2 * i + 1) = HexDigit(At(out, i) % 16)
        /\ \A k \in 0..63 : At(hex, k) \in HexAlphabet
        /\ At(hex, 64) = 0
        /\ rust_sha256_to_hex(out, hex) = hex

\* A digest with a byte whose two nibbles differ and need a letter.
C9_Witness ==
    /\ hexed
    /\ \E i \in 0..31 : At(out, i) \div 16 >= 10 /\ At(out, i) % 16 < 10

\* n as k bytes, most significant first
RECURSIVE BigEndian(_, _)
BigEndian(n, k) == IF k = 0 THEN <<>> ELSE Append(BigEndian(n \div 256, k - 1), n % 256)

\* M || 0x80 || 0x00^k || BE64(8 * |M|), k the least making the length a
\* multiple of 64
Padded(M) ==
    LET k == (64 - ((Len(M) + 9) % 64)) % 64
    IN M \o <<128>> \o Zeros(k) \o BigEndian(8 * Len(M), 8)

Chunks(s) == [j \in 1..(Len(s) \div 64) |-> SubSeq(s, 64 * (j - 1) + 1, 64 * j)]

\* C10: over init, the updates and final, the blocks transformed are the
\* consecutive 64-byte chunks of the padded message, and the digest is the
\* eight state words, big-endian, word 0 first.
C10_PaddedBlocks ==
    phase = "finalized" =>
        /\ blocks = Chunks(Padded(msg))
        /\ Len(out) = 32
        /\ \A i \in 0..7 :
              /\ At(out, 4 * i) * 256 + At(out, 4 * i + 1) = At(h, i)[1]
              /\ At(out, 4 * i + 2) * 256 + At(out, 4 * i + 3) = At(h, i)[2]

\* A 56-byte message fed in two spans: the padding takes a block of its own.
C10_Witness ==
    /\ phase = "finalized"
    /\ Len(msg) = 56
    /\ nupd = 2
    /\ Len(blocks) = 2

====
